---- MODULE Spec2Model ----
(***************************************************************************)
(* Model of the SITKA zoning API (src/index.js): an Express server whose   *)
(* handlers geocode an address (geocodeEndereco), look the coordinate up   *)
(* in a PostGIS table through a pooled connection (consultarZoneamento)    *)
(* and answer with JSON.                                                   *)
(*                                                                         *)
(* Encoding of JavaScript values:                                          *)
(*   - a string that the code inspects character by character (an address) *)
(*     is a record [type, chars] whose chars is a sequence of 1-character  *)
(*     strings; type "undefined" stands for a missing field;               *)
(*   - other strings are TLA+ strings; NULL stands for null (a SQL NULL    *)
(*     column, a null JSON field) and UNDEFINED for an unset environment   *)
(*     variable;                                                           *)
(*   - a JSON number is a record [type, num]; coordinates are whole        *)
(*     degrees.                                                            *)
(***************************************************************************)
EXTENDS Integers, Sequences, FiniteSets, Bags, TLC

(***************************************************************************)
(* Bounds of the model.                                                    *)
(***************************************************************************)
\* Number of requests that can be in flight at the same time.
NumReq == 2
\* Longest candidate list the geocoding provider answers with.
MaxResults == 2

NULL == "<null>"
UNDEFINED == "<undefined>"

(***************************************************************************)
(* JavaScript values.                                                      *)
(***************************************************************************)
JsUndefined == [type |-> "undefined", chars |-> <<>>]
JsString(cs) == [type |-> "string", chars |-> cs]
JsNumber(n) == [type |-> "number", num |-> n]
JsNotNumber(t) == [type |-> t, num |-> 0]

\* !v for a value that is undefined or a string.
Falsy(v) == v.type = "undefined" \/ v.chars = <<>>

\* a || b
JsOr(a, b) == IF Falsy(a) THEN b ELSE a

\* s || fallback for a plain string or null.
StrOr(s, fallback) == IF s = NULL \/ s = "" THEN fallback ELSE s

\* `${s}` for a plain string or null.
Interpolate(s) == IF s = NULL THEN "null" ELSE s

IsWhiteSpace(c) == c \in {" ", "\t", "\n"}

RECURSIVE TrimStart(_)
TrimStart(cs) ==
  IF cs # <<>> /\ IsWhiteSpace(Head(cs)) THEN TrimStart(Tail(cs)) ELSE cs

RECURSIVE TrimEnd(_)
TrimEnd(cs) ==
  IF cs # <<>> /\ IsWhiteSpace(cs[Len(cs)])
  THEN TrimEnd(SubSeq(cs, 1, Len(cs) - 1))
  ELSE cs

\* endereco.trim()
Trim(cs) == TrimEnd(TrimStart(cs))

(***************************************************************************)
(* Routes, in the order app.post / app.get register them.  A second        *)
(* handler is registered for POST /zoneamento-wati (index.js 241-272); the *)
(* first one always answers and never calls next(), so the second is never *)
(* dispatched to.                                                          *)
(***************************************************************************)
CoordRoute == "POST /zoneamento"

\* Handlers that read req.body.endereco || req.body.endereco_imovel.
AliasRoutes ==
  {"POST /zoneamento-endereco", "POST /zoneamento-wati",
   "POST /webhook/zoneamento-wati"}

\* Handlers that test endereco.trim() === ''.
TrimRoutes ==
  {"GET /webhook/zoneamento", "POST /webhook/zoneamento",
   "POST /webhook/zoneamento-wati"}

AddrRoutes ==
  {"POST /zoneamento-endereco", "POST /zoneamento-wati", "GET /zoneamento-wati",
   "POST /zoneamento-wati-v2", "GET /webhook/zoneamento",
   "POST /webhook/zoneamento", "POST /webhook/zoneamento-wati"}

\* const endereco = ... of each address handler.
EnderecoOf(route, params) ==
  IF route \in AliasRoutes
  THEN JsOr(params.endereco, params.endereco_imovel)
  ELSE params.endereco

\* The 400 guard of each address handler.
EnderecoRejected(route, endereco) ==
  IF route \in TrimRoutes
  THEN Falsy(endereco) \/ Trim(endereco.chars) = <<>>
  ELSE Falsy(endereco)

\* The 400 guard of POST /zoneamento.
CoordRejected(body) == body.lat.type # "number" \/ body.lng.type # "number"

(***************************************************************************)
(* geocodeEndereco                                                         *)
(***************************************************************************)
NoError == [name |-> "", message |-> ""]
NoGeo == [enderecoFormatado |-> "", lat |-> 0, lng |-> 0]

\* GOOGLE_API_KEY === undefined instead of !GOOGLE_API_KEY.
KeyOnlyUndefined(key) == key = UNDEFINED

\* !GOOGLE_API_KEY
KeyMissing(key) == key = UNDEFINED \/ key = ""

ConfigError ==
  [name |-> "Error",
   message |-> "GOOGLE_API_KEY não configurada no .env. Não é possível geocodificar."]

GeocodePrefix == "Não foi possível geocodificar o endereço. Status: "

Returned(v) == [ok |-> TRUE, value |-> v, error |-> NoError]
Thrown(e) == [ok |-> FALSE, value |-> NoGeo, error |-> e]

\* The last candidate instead of the first.
LastResult(results) == results[Len(results)]

\* const { formatted_address, geometry } = resp.data.results[0]
FirstResult(results) == results[1]

\* geocodeEndereco with the status test left out of its guard.
GeocodeIgnoringStatus(net) ==
  IF net.kind = "throw" THEN Thrown(net.error)
  ELSE IF Len(net.data.results) = 0
  THEN Thrown([name |-> "Error", message |-> GeocodePrefix \o net.data.status])
  ELSE LET first == FirstResult(net.data.results)
       IN  Returned([enderecoFormatado |-> first.formatted_address,
                     lat |-> first.geometry.location.lat,
                     lng |-> first.geometry.location.lng])

\* geocodeEndereco from the return of axios.get on: net is what the outbound
\* call produced, a response body or a rejection.
GeocodeAfterGet(net) ==
  IF net.kind = "throw" THEN Thrown(net.error)
  ELSE IF net.data.status # "OK" \/ Len(net.data.results) = 0
  THEN Thrown([name |-> "Error", message |-> GeocodePrefix \o net.data.status])
  ELSE LET first == FirstResult(net.data.results)
       IN  Returned([enderecoFormatado |-> first.formatted_address,
                     lat |-> first.geometry.location.lat,
                     lng |-> first.geometry.location.lng])

(***************************************************************************)
(* What the geocoding provider can answer.                                 *)
(***************************************************************************)
Candidate(fmt, lat, lng) ==
  [formatted_address |-> fmt,
   geometry |-> [location |-> [lat |-> lat, lng |-> lng]]]

Candidates ==
  {Candidate("Av. Paulista, 1578 - Bela Vista, São Paulo - SP, 01310-200, Brasil",
             -23, -46),
   Candidate("Praça da Matriz, Manaus - AM, Brasil", -3, -60)}

ProviderStatuses == {"OK", "ZERO_RESULTS", "REQUEST_DENIED"}

ResultLists == UNION {[1..n -> Candidates] : n \in 0..MaxResults}

NoData == [status |-> "", results |-> <<>>]

TransportMessages == {"connect ECONNREFUSED", "timeout of 0ms exceeded"}

NetOutcomes ==
  {[kind |-> "response", data |-> [status |-> st, results |-> rs], error |-> NoError] :
     st \in ProviderStatuses, rs \in ResultLists}
  \cup
  {[kind |-> "throw", data |-> NoData,
    error |-> [name |-> "AxiosError", message |-> m]] : m \in TransportMessages}

(***************************************************************************)
(* The zoneamento table and the query of consultarZoneamento.              *)
(***************************************************************************)
\* ST_Point(x, y)
StPoint(x, y) == [x |-> x, y |-> y]

\* ST_Transform(ST_SetSRID(p, 4326), 31983): degrees to the metric grid of
\* UTM zone 23S (central meridian -45, false easting 500000, false northing
\* 10000000), linearised on whole degrees.
StTransform(p) == [x |-> 500000 + (p.x + 45) * 100000, y |-> 10000000 + p.y * 110000]

\* The cell of the grid that the whole-degree point (lng, lat) projects to.
Cell(lng, lat) == StTransform(StPoint(lng, lat))

\* Rows of the table: geom is the set of grid cells the polygon covers.
Zoneamento ==
  {[id |-> 1, geom |-> {Cell(-46, -23)}, zl_zona |-> "ZEU",
    zl_txt_zon |-> "Zona Eixo de Estruturação da Transformação Urbana"],
   [id |-> 2, geom |-> {Cell(-47, -24)}, zl_zona |-> "ZM", zl_txt_zon |-> "Zona Mista"],
   [id |-> 3, geom |-> {Cell(-47, -24)}, zl_zona |-> "ZC",
    zl_txt_zon |-> "Zona de Centralidade"],
   [id |-> 4, geom |-> {Cell(-46, -22)}, zl_zona |-> "ZER", zl_txt_zon |-> NULL],
   [id |-> 5, geom |-> {Cell(-47, -22)}, zl_zona |-> "ZPI", zl_txt_zon |-> ""]}

\* [lat, lng] instead of [lng, lat].
QueryValuesSwapped(lat, lng) == <<lat, lng>>

\* const values = [lng, lat]; // ordem: longitude, latitude
QueryValues(lat, lng) == <<lng, lat>>

\* The rows z of the table with ST_Contains(z.geom, <the transformed point>).
Containing(values) ==
  {z \in Zoneamento : StTransform(StPoint(values[1], values[2])) \in z.geom}

\* The query without its WHERE clause.
QueryRowsUnfiltered(values) ==
  {<<[cod_zoneamento |-> z.zl_zona, texto_zoneamento |-> z.zl_txt_zon]>> :
     z \in Zoneamento}

\* The values result.rows can take: SELECT ... LIMIT 1 without ORDER BY
\* returns any one of the matching rows.
QueryRows(values) ==
  IF Containing(values) = {} THEN {<<>>}
  ELSE {<<[cod_zoneamento |-> z.zl_zona, texto_zoneamento |-> z.zl_txt_zon]>> :
          z \in Containing(values)}

DbErrors == {"connect ECONNREFUSED", "canceling statement due to statement timeout"}

\* consultarZoneamento without the branch for an empty result.rows.
ConsultaSemRamoVazio(rows) ==
  IF Len(rows) = 0
  THEN [codigo |-> NULL, texto |-> "Zoneamento não identificado."]
  ELSE [codigo |-> rows[1].cod_zoneamento,
        texto |-> StrOr(rows[1].texto_zoneamento, "Zoneamento não identificado.")]

\* What consultarZoneamento returns for result.rows.
ConsultaResultado(rows) ==
  IF Len(rows) = 0
  THEN [codigo |-> NULL, texto |-> "Zoneamento não encontrado para esse ponto."]
  ELSE [codigo |-> rows[1].cod_zoneamento,
        texto |-> StrOr(rows[1].texto_zoneamento, "Zoneamento não identificado.")]

(***************************************************************************)
(* Response bodies.                                                        *)
(***************************************************************************)
\* The body of res.status(400).json(...) of each handler.
Body400(route) ==
  [success |-> FALSE,
   error |->
     CASE route = CoordRoute ->
            "Parâmetros lat e lng são obrigatórios e devem ser numéricos."
       [] route \in {"POST /zoneamento-endereco", "POST /zoneamento-wati"} ->
            "O campo \"endereco\" é obrigatório."
       [] route = "GET /zoneamento-wati" -> "O parametro \"endereco\" eh obrigatorio."
       [] route = "POST /zoneamento-wati-v2" -> "O campo \"endereco\" eh obrigatorio."
       [] route = "GET /webhook/zoneamento" -> "Parâmetro \"endereco\" eh obrigatorio"
       [] route = "POST /webhook/zoneamento" -> "Campo \"endereco\" eh obrigatorio"
       [] OTHER -> "Campo \"endereco\" ou \"endereco_imovel\" eh obrigatorio"]

\* The body of res.status(500).json(...) in the catch block of each handler.
Body500(route, error) ==
  CASE route = CoordRoute ->
         [success |-> FALSE, error |-> "Erro ao consultar zoneamento.",
          details |-> error.message]
    [] route \in {"POST /zoneamento-endereco", "POST /zoneamento-wati"} ->
         [success |-> FALSE, error |-> "Erro ao processar o endereço.",
          details |-> error.message]
    [] route \in {"GET /zoneamento-wati", "POST /zoneamento-wati-v2"} ->
         [success |-> FALSE, error |-> "Erro ao processar o endereco.",
          details |-> error.message]
    [] OTHER ->
         [success |-> FALSE,
          error |-> StrOr(error.message, "Erro ao processar endereco")]

\* The body of res.json(...) of each handler: r is the handler's request
\* (endereco, enderecoFormatado, lat, lng), z what consultarZoneamento returned.
Body200(route, r, z) ==
  CASE route = CoordRoute ->
         [success |-> TRUE, lat |-> r.lat, lng |-> r.lng,
          cod_zoneamento |-> z.codigo, txt_zoneamento |-> z.texto]
    [] route = "POST /zoneamento-endereco" ->
         [end_fmt |-> r.enderecoFormatado,
          zon_cod |-> StrOr(z.codigo, "Nao identificado"),
          zon_txt |-> StrOr(z.texto, "Zoneamento nao encontrado"),
          endereco_original |-> r.endereco.chars,
          endereco_formatado |-> r.enderecoFormatado,
          lat |-> r.lat, lng |-> r.lng,
          zoneamento |-> StrOr(z.codigo, "Nao identificado"),
          zoneamento_texto |-> StrOr(z.texto, "Zoneamento nao encontrado"),
          mensagem_whatsapp |->
            "Endereço: " \o r.enderecoFormatado \o "\nZoneamento: "
              \o Interpolate(z.codigo)]
    [] route = "POST /zoneamento-wati" ->
         [success |-> TRUE,
          endereco_original |-> r.endereco.chars,
          endereco_formatado |-> r.enderecoFormatado,
          lat |-> r.lat, lng |-> r.lng,
          cod_zoneamento |-> z.codigo, txt_zoneamento |-> z.texto,
          end_fmt |-> r.enderecoFormatado,
          zon_cod |-> z.codigo, zon_txt |-> z.texto]
    [] OTHER ->
         [endereco_formatado |-> r.enderecoFormatado,
          zoneamento |-> StrOr(z.codigo, "Nao identificado"),
          zoneamento_texto |-> StrOr(z.texto, "Zoneamento nao encontrado")]

\* return res.status(400).json(...), the catch block, and res.json(...).
Reject(route) == [status |-> 400, body |-> Body400(route)]
Catch(route, error) == [status |-> 500, body |-> Body500(route, error)]
Ok(route, r, z) == [status |-> 200, body |-> Body200(route, r, z)]

\* The error message a 500 body carries.
MessageOf(route, body) ==
  IF route \in TrimRoutes THEN body.error ELSE body.details

(***************************************************************************)
(* Requests the clients send.                                              *)
(***************************************************************************)
Blank == <<" ", " ">>
Rua == <<"S", "é">>

AddrValues == {JsUndefined, JsString(<<>>), JsString(Blank), JsString(Rua)}

\* req.body of a POST, req.query of a GET.
Params ==
  [endereco : AddrValues, endereco_imovel : {JsUndefined, JsString(Rua)}]

\* (lat, lng) pairs: inside one polygon, inside two, inside one with a NULL
\* and one with an empty description, inside none, and out of range.
Coords ==
  {<<-23, -46>>, <<-24, -47>>, <<-22, -46>>, <<-22, -47>>, <<0, 0>>,
   <<95, -46>>, <<-23, 200>>}

CoordBodies ==
  {[lat |-> JsNumber(c[1]), lng |-> JsNumber(c[2])] : c \in Coords}
  \cup {[lat |-> JsNotNumber("string"), lng |-> JsNumber(-46)],
        [lat |-> JsNumber(-23), lng |-> JsNotNumber("undefined")]}

(***************************************************************************)
(* State.  Handler invocations interleave at their awaits (axios.get,      *)
(* pool.connect, client.query); between two awaits a handler runs alone.   *)
(* Responses are observed one at a time: res holds the response a handler  *)
(* has just written until Sent takes it away.  The pool is modelled below  *)
(* its capacity (pg's default is 10 clients), so pool.connect() never      *)
(* queues: it settles with a client or with an error.                      *)
(***************************************************************************)
VARIABLES
  GOOGLE_API_KEY,  \* process.env.GOOGLE_API_KEY, read once at startup
  req,             \* the handler invocations in flight, a bag
  leased,          \* clients checked out of the pool
  res,             \* the response being sent, NoRes when none
  configFailed,    \* history: some request has failed on the missing key
  memo             \* history: an earlier answer of POST /zoneamento, NoMemo when none

vars == <<GOOGLE_API_KEY, req, leased, res, configFailed, memo>>

\* A handler invocation.  pc is the await it is suspended at; calls, connects,
\* acquired, released and queries count what it has done so far: outbound
\* geocoding calls, pool.connect() calls, clients obtained, clients released,
\* client.query() calls; usable records that the provider gave it a usable
\* answer, and first the first candidate of that answer.
Idle ==
  [pc |-> "idle", route |-> "", endereco |-> JsUndefined,
   enderecoFormatado |-> "", lat |-> 0, lng |-> 0,
   calls |-> 0, connects |-> 0, acquired |-> 0, released |-> 0, queries |-> 0,
   usable |-> FALSE, first |-> Candidate("", 0, 0)]

NoRows == <<>>

NoZon == [codigo |-> "", texto |-> ""]

\* What is kept of the provider's answer to a request whose geocoding failed:
\* a response or a rejection, the status, whether the result list was empty.
NoNet == [kind |-> "", status |-> "", empty |-> TRUE]
NetSummary(net) ==
  [kind |-> net.kind, status |-> net.data.status, empty |-> net.data.results = <<>>]

NoRes ==
  [status |-> 0, body |-> [success |-> FALSE], by |-> Idle,
   geoFailed |-> FALSE, geoError |-> NoError, net |-> NoNet, consulted |-> FALSE,
   rows |-> NoRows, zon |-> NoZon]

NoMemo == [set |-> FALSE, lat |-> 0, lng |-> 0, body |-> [success |-> FALSE]]

\* The response sb (status and body) sent by invocation r.  geoFailed,
\* geoError, net: whether geocoding failed for it, with which error and on
\* which answer of the provider; consulted,
\* rows, zon: whether consultarZoneamento returned for it, with which
\* result.rows and with which value.
Response(sb, r, gf, ge, cons, rows, zon) ==
  [status |-> sb.status, body |-> sb.body, by |-> r,
   geoFailed |-> gf, geoError |-> ge, net |-> NoNet, consulted |-> cons,
   rows |-> rows, zon |-> zon]

Init ==
  /\ GOOGLE_API_KEY \in {UNDEFINED, "", "AIza-key"}
  /\ req = EmptyBag
  /\ leased = 0
  /\ res = NoRes
  /\ configFailed = FALSE
  /\ memo = NoMemo

\* The server takes a new request while fewer than NumReq are in flight.
Accepting == BagCardinality(req) < NumReq

\* The invocations in flight once r has started, once r has moved on to r2,
\* and once r has answered.
Started(r) == req (+) SetToBag({r})
Moved(r, r2) == (req (-) SetToBag({r})) (+) SetToBag({r2})
Answered(r) == req (-) SetToBag({r})

InFlight == BagToSet(req)

\* Whether the provider's answer is a usable one.
Usable(net) ==
  net.kind = "response" /\ net.data.status = "OK" /\ net.data.results # <<>>

(***************************************************************************)
(* An address handler, from the request to its first await: the 400 guard, *)
(* then geocodeEndereco up to axios.get.                                   *)
(***************************************************************************)
ReceiveAddress(route, params) ==
  LET endereco == EnderecoOf(route, params)
      r == [Idle EXCEPT !.route = route, !.endereco = endereco]
  IN
  /\ res = NoRes
  /\ Accepting
  /\ \/ /\ EnderecoRejected(route, endereco)
        /\ res' = Response(Reject(route), r, FALSE, NoError, FALSE, NoRows, NoZon)
        /\ UNCHANGED <<req, configFailed>>
     \/ /\ ~EnderecoRejected(route, endereco)
        /\ KeyMissing(GOOGLE_API_KEY)
        /\ res' = Response(Catch(route, ConfigError), r, TRUE, ConfigError, FALSE,
                           NoRows, NoZon)
        /\ configFailed' = TRUE
        /\ UNCHANGED req
     \/ /\ ~EnderecoRejected(route, endereco)
        /\ ~KeyMissing(GOOGLE_API_KEY)
        /\ req' = Started([r EXCEPT !.pc = "geocoding", !.calls = 1])
        /\ UNCHANGED <<res, configFailed>>
  /\ UNCHANGED <<GOOGLE_API_KEY, leased, memo>>

(***************************************************************************)
(* POST /zoneamento, from the request to the pool.connect() of             *)
(* consultarZoneamento.                                                    *)
(***************************************************************************)
ReceiveCoord(body) ==
  LET r == [Idle EXCEPT !.route = CoordRoute]
  IN
  /\ res = NoRes
  /\ Accepting
  /\ \/ /\ CoordRejected(body)
        /\ res' = Response(Reject(CoordRoute), r, FALSE, NoError, FALSE, NoRows, NoZon)
        /\ UNCHANGED req
     \/ /\ ~CoordRejected(body)
        /\ req' = Started([r EXCEPT !.pc = "connecting", !.lat = body.lat.num,
                                     !.lng = body.lng.num, !.connects = 1])
        /\ UNCHANGED res
  /\ UNCHANGED <<GOOGLE_API_KEY, leased, configFailed, memo>>

(***************************************************************************)
(* axios.get settles: geocodeEndereco returns or throws; on a return the   *)
(* handler calls consultarZoneamento, which calls pool.connect().          *)
(***************************************************************************)
GeocodeReturn(r, net) ==
  LET g == GeocodeAfterGet(net)
  IN
  /\ res = NoRes
  /\ r \in InFlight
  /\ r.pc = "geocoding"
  /\ \/ /\ g.ok
        /\ req' = Moved(r, [r EXCEPT !.pc = "connecting",
                                      !.enderecoFormatado = g.value.enderecoFormatado,
                                      !.lat = g.value.lat, !.lng = g.value.lng,
                                      !.connects = 1, !.usable = Usable(net),
                                      !.first = net.data.results[1]])
        /\ UNCHANGED res
     \/ /\ ~g.ok
        /\ res' = [Response(Catch(r.route, g.error), r, ~Usable(net), g.error,
                            FALSE, NoRows, NoZon) EXCEPT !.net = NetSummary(net)]
        /\ req' = Answered(r)
  /\ UNCHANGED <<GOOGLE_API_KEY, leased, configFailed, memo>>

(***************************************************************************)
(* consultarZoneamento                                                     *)
(***************************************************************************)
\* client.release() at the end of the try block instead of in a finally.
ReleaseOnReturnOnly(threw) == IF threw THEN 0 ELSE 1

\* How many times client.release() runs when the try block is left: the
\* finally clause runs it on a return and on a throw alike.
ReleaseCount(threw) == 1

\* What client.query can settle with for the coordinate (lat, lng).
QueryOutcomes(lat, lng) ==
  {[kind |-> "rows", rows |-> rows, message |-> ""] :
     rows \in QueryRows(QueryValues(lat, lng))}
  \cup {[kind |-> "error", rows |-> NoRows, message |-> m] : m \in DbErrors}

\* pool.connect() settles: with a client, and client.query is sent, or with
\* an error, which the handler's catch block answers.
ConnectReturn(r) ==
  /\ res = NoRes
  /\ r \in InFlight
  /\ r.pc = "connecting"
  /\ \/ /\ req' = Moved(r, [r EXCEPT !.pc = "querying", !.acquired = r.acquired + 1,
                                      !.queries = r.queries + 1])
        /\ leased' = leased + 1
        /\ UNCHANGED res
     \/ \E m \in DbErrors :
          /\ res' = Response(Catch(r.route, [name |-> "Error", message |-> m]),
                             r, FALSE, NoError, FALSE, NoRows, NoZon)
          /\ req' = Answered(r)
          /\ UNCHANGED leased
  /\ UNCHANGED <<GOOGLE_API_KEY, configFailed, memo>>

\* client.query settles: consultarZoneamento returns or throws, releasing the
\* client on the way out, and the handler answers.
QueryReturn(r, out) ==
  LET n == ReleaseCount(out.kind = "error")
      done == [r EXCEPT !.released = r.released + n]
  IN
  /\ res = NoRes
  /\ r \in InFlight
  /\ r.pc = "querying"
  /\ leased' = leased - n
  /\ req' = Answered(r)
  /\ \/ /\ out.kind = "rows"
        /\ res' = Response(Ok(r.route, r, ConsultaResultado(out.rows)),
                           done, FALSE, NoError, TRUE, out.rows,
                           ConsultaResultado(out.rows))
     \/ /\ out.kind = "error"
        /\ res' = Response(Catch(r.route, [name |-> "Error", message |-> out.message]),
                           done, FALSE, NoError, FALSE, NoRows, NoZon)
  /\ UNCHANGED <<GOOGLE_API_KEY, configFailed, memo>>

\* The response has gone out on the socket.
Sent ==
  /\ res # NoRes
  /\ res' = NoRes
  /\ UNCHANGED <<GOOGLE_API_KEY, req, leased, configFailed, memo>>

Next ==
  \/ \E route \in AddrRoutes, params \in Params : ReceiveAddress(route, params)
  \/ \E body \in CoordBodies : ReceiveCoord(body)
  \/ \E r \in InFlight, net \in NetOutcomes : GeocodeReturn(r, net)
  \/ \E r \in InFlight : ConnectReturn(r)
  \/ \E r \in InFlight : \E out \in QueryOutcomes(r.lat, r.lng) : QueryReturn(r, out)
  \/ Sent

Spec == Init /\ [][Next]_vars

(***************************************************************************)
(* The same server with an observer that keeps one answer of               *)
(* POST /zoneamento, as it goes out, to compare later answers with.  The   *)
(* address traffic running beside it is that of two of the routes.         *)
(***************************************************************************)
IdemRoutes == {"POST /zoneamento-endereco", "POST /webhook/zoneamento-wati"}

Remember ==
  /\ ~memo.set
  /\ res.status = 200
  /\ res.by.route = CoordRoute
  /\ memo' = [set |-> TRUE, lat |-> res.by.lat, lng |-> res.by.lng, body |-> res.body]
  /\ res' = NoRes
  /\ UNCHANGED <<GOOGLE_API_KEY, req, leased, configFailed>>

NextIdem ==
  \/ \E route \in IdemRoutes, params \in Params : ReceiveAddress(route, params)
  \/ \E body \in CoordBodies : ReceiveCoord(body)
  \/ \E r \in InFlight, net \in NetOutcomes : GeocodeReturn(r, net)
  \/ \E r \in InFlight : ConnectReturn(r)
  \/ \E r \in InFlight : \E out \in QueryOutcomes(r.lat, r.lng) : QueryReturn(r, out)
  \/ Sent
  \/ Remember

SpecIdem == Init /\ [][NextIdem]_vars

(***************************************************************************)
(* Properties.                                                             *)
(***************************************************************************)
Answering == res # NoRes

\* Clients an invocation holds.
Held(r) == r.acquired - r.released

RECURSIVE SumHeld(_)
SumHeld(S) ==
  IF S = {} THEN 0
  ELSE LET r == CHOOSE x \in S : TRUE
       IN  CopiesIn(r, req) * Held(r) + SumHeld(S \ {r})

\* The rows of the table whose polygon covers the point (lat, lng).
Inside(lat, lng) == {z \in Zoneamento : Cell(lng, lat) \in z.geom}

\* C1: on every address route the store is reached only by a request whose
\* geocoding got a usable answer; a request whose geocoding failed (missing
\* key, status other than OK, no results, transport failure) makes no
\* pool.connect() call, obtains no client, sends no query, and is answered
\* with an error response carrying the message of the geocoding error.
C1_GeocodeBeforeStore ==
  /\ \A r \in InFlight :
       r.route \in AddrRoutes /\ (r.connects > 0 \/ r.acquired > 0 \/ r.queries > 0)
         => r.usable /\ r.calls = 1
  /\ Answering /\ res.by.route \in AddrRoutes =>
       /\ res.by.connects > 0 => res.by.usable
       /\ res.geoFailed =>
            /\ res.by.connects = 0 /\ res.by.acquired = 0 /\ res.by.queries = 0
            /\ ~res.consulted
            /\ res.status = 500
            /\ res.body.success = FALSE
            /\ MessageOf(res.by.route, res.body) = res.geoError.message

\* A request whose outbound geocoding call failed is being answered.
C1_Witness ==
  /\ Answering /\ res.geoFailed /\ res.by.calls = 1
  /\ res.by.route = "GET /webhook/zoneamento"

\* C2: a request holds a client exactly while its query is outstanding and
\* never more than one; the pool's count of leased clients is the number of
\* such requests; a request that is answered has released every client it
\* obtained, exactly once, whether its query found a row, found none or
\* failed; with no request in flight no client is leased.
C2_PoolBalanced ==
  /\ \A r \in InFlight :
       /\ r.acquired <= 1
       /\ Held(r) = IF r.pc = "querying" THEN 1 ELSE 0
  /\ leased = SumHeld(InFlight)
  /\ Answering => res.by.released = res.by.acquired /\ res.by.acquired <= 1
  /\ req = EmptyBag => leased = 0

\* A request whose query failed is answered while another holds a client.
C2_Witness ==
  /\ Answering /\ res.status = 500 /\ res.by.acquired = 1 /\ res.by.released = 1
  /\ \E r \in InFlight : r.pc = "querying"
  /\ leased = 1
\* Latitude in [-90, 90] and longitude in [-180, 180].
InRange(lat, lng) == lat >= -90 /\ lat <= 90 /\ lng >= -180 /\ lng <= 180

\* C3: a POST /zoneamento request whose latitude or longitude is out of range
\* never reaches consultarZoneamento: it makes no pool.connect() call and is
\* answered 400.
C3_OutOfRangeRejected ==
  /\ \A r \in InFlight : r.route = CoordRoute => InRange(r.lat, r.lng)
  /\ Answering /\ res.by.route = CoordRoute /\ ~InRange(res.by.lat, res.by.lng) =>
       res.status = 400 /\ res.by.connects = 0

\* An address that is missing, empty or only white space.
BlankAddress(e) == e.type = "undefined" \/ Trim(e.chars) = <<>>

\* C4: on every address route a request whose address is missing, empty or
\* only white space is answered 400 without geocodeEndereco being called: it
\* never waits on an outbound geocoding call nor on the store.
C4_BlankAddressRejected ==
  /\ \A r \in InFlight : r.route \in AddrRoutes => ~BlankAddress(r.endereco)
  /\ Answering /\ res.by.route \in AddrRoutes /\ BlankAddress(res.by.endereco) =>
       res.status = 400 /\ res.by.calls = 0 /\ ~res.geoFailed

\* C5: when no polygon of the table covers the coordinate and the query
\* returns, consultarZoneamento returns codigo null with the fixed message,
\* and POST /zoneamento answers 200 with success true and cod_zoneamento null.
C5_NotFoundIsSuccess ==
  Answering /\ res.consulted /\ Inside(res.by.lat, res.by.lng) = {} =>
    /\ res.rows = <<>>
    /\ res.zon = [codigo |-> NULL,
                  texto |-> "Zoneamento não encontrado para esse ponto."]
    /\ res.status = 200
    /\ res.by.route = CoordRoute =>
         /\ res.body.success = TRUE
         /\ res.body.cod_zoneamento = NULL
         /\ res.body.txt_zoneamento = "Zoneamento não encontrado para esse ponto."

\* POST /zoneamento is answering for a point no polygon covers.
C5_Witness ==
  /\ Answering /\ res.consulted /\ res.by.route = CoordRoute
  /\ res.by.lat = 0 /\ res.by.lng = 0
  /\ res.status = 200

\* C6 as claimed: when a polygon covers the coordinate and the query returns,
\* the result is the code and the description of a covering row, unmodified,
\* whatever they are.
C6_ExactRow ==
  Answering /\ res.consulted /\ Inside(res.by.lat, res.by.lng) # {} =>
    \E z \in Inside(res.by.lat, res.by.lng) :
      res.zon = [codigo |-> z.zl_zona, texto |-> z.zl_txt_zon]

\* C6 as amended: the result is the code of a covering row, unmodified, with
\* that row's description when the description is a non-empty string and with
\* the fixed text "Zoneamento não identificado." when it is null or empty;
\* POST /zoneamento answers with exactly that code and text.
C6_RowWithDefaultText ==
  Answering /\ res.consulted /\ Inside(res.by.lat, res.by.lng) # {} =>
    /\ \E z \in Inside(res.by.lat, res.by.lng) :
         /\ res.zon.codigo = z.zl_zona
         /\ res.zon.texto =
              IF z.zl_txt_zon \in {NULL, ""} THEN "Zoneamento não identificado."
              ELSE z.zl_txt_zon
    /\ res.by.route = CoordRoute =>
         /\ res.status = 200
         /\ res.body.cod_zoneamento = res.zon.codigo
         /\ res.body.txt_zoneamento = res.zon.texto

\* POST /zoneamento is answering for the point inside the polygon whose
\* description is NULL.
C6_Witness ==
  /\ Answering /\ res.consulted /\ res.by.route = CoordRoute
  /\ res.by.lat = -22 /\ res.by.lng = -46
  /\ res.zon.codigo = "ZER"

\* C7: with GOOGLE_API_KEY unset (or empty) no request ever has an outbound
\* geocoding call outstanding or made; every address request that passes its
\* 400 guard is answered 500 with the configuration error; and the server
\* goes on serving: POST /zoneamento requests are taken, reach the store and
\* are answered 200 whenever their query returns, also after such a failure.
C7_MissingKeyFailsFast ==
  GOOGLE_API_KEY \in {UNDEFINED, ""} =>
    /\ \A r \in InFlight : r.calls = 0 /\ r.route = CoordRoute
    /\ Answering /\ res.by.route \in AddrRoutes /\ res.status # 400 =>
         /\ res.status = 500
         /\ res.by.calls = 0
         /\ res.geoError = ConfigError
         /\ MessageOf(res.by.route, res.body) = ConfigError.message
         /\ configFailed
    /\ Answering /\ res.by.route = CoordRoute /\ res.consulted => res.status = 200
    /\ ~Answering /\ Accepting => ENABLED (\E body \in CoordBodies : ReceiveCoord(body))

\* After a request failed on the missing key, a POST /zoneamento request is
\* answered 200.
C7_Witness ==
  /\ GOOGLE_API_KEY = UNDEFINED /\ configFailed
  /\ Answering /\ res.by.route = CoordRoute /\ res.status = 200
  /\ res.body.cod_zoneamento = "ZEU"
\* C8: for every answer of the provider, geocodeEndereco returns if and only
\* if the status is "OK" and the result list is not empty, and then returns
\* the formatted address and the coordinate of the first result whatever the
\* later ones are; otherwise it throws, and for a provider response the error
\* message ends with the provider's status.
C8_FirstResultOnly ==
  /\ \A r \in InFlight :
       r.route \in AddrRoutes /\ r.pc # "geocoding" =>
         /\ r.usable
         /\ r.enderecoFormatado = r.first.formatted_address
         /\ r.lat = r.first.geometry.location.lat
         /\ r.lng = r.first.geometry.location.lng
  /\ Answering /\ res.by.route \in AddrRoutes /\ res.by.calls = 1 =>
       /\ res.geoFailed <=> res.net # NoNet
       /\ res.geoFailed <=> res.by.connects = 0
       /\ res.geoFailed =>
            ~(res.net.kind = "response" /\ res.net.status = "OK" /\ ~res.net.empty)
       /\ res.geoFailed /\ res.net.kind = "response" =>
            /\ res.geoError.message = GeocodePrefix \o res.net.status
            /\ MessageOf(res.by.route, res.body) = GeocodePrefix \o res.net.status
       /\ ~res.geoFailed =>
            /\ res.by.usable
            /\ res.by.enderecoFormatado = res.by.first.formatted_address
            /\ res.by.lat = res.by.first.geometry.location.lat
            /\ res.by.lng = res.by.first.geometry.location.lng
            /\ res.status = 200 => res.body.endereco_formatado = res.by.first.formatted_address

\* A request goes on with the first candidate of the provider's answer.
C8_Witness ==
  \E r \in InFlight :
    /\ r.pc = "connecting" /\ r.usable
    /\ r.route = "POST /zoneamento-wati-v2"
    /\ r.lat = -3 /\ r.lng = -60
    /\ r.first.geometry.location.lat = -3

\* The errors geocodeEndereco throws, and the failure mode of each.
GeocodingErrors ==
  {ConfigError}
  \cup {[name |-> "Error", message |-> GeocodePrefix \o st] : st \in ProviderStatuses}
  \cup {[name |-> "AxiosError", message |-> m] : m \in TransportMessages}

Mode(e) ==
  IF e = ConfigError THEN "configuration"
  ELSE IF e.name = "AxiosError" THEN "transport"
  ELSE "geocoding"

\* The kind of an error response: its status and what its body holds besides
\* the free text of the message.
ErrorKind(route, sb) ==
  <<sb.status, sb.body.success, IF route \in TrimRoutes THEN "" ELSE sb.body.error>>

\* C9: the kind of the error response an address route gives for a geocoding
\* failure of one mode (configuration, geocoding, transport) differs from the
\* kind it gives for a failure of either other mode.
C9_KindsDistinct ==
  Answering /\ res.geoFailed =>
    \A e \in GeocodingErrors :
      Mode(e) # Mode(res.geoError) =>
        ErrorKind(res.by.route, Catch(res.by.route, e))
          # ErrorKind(res.by.route, [status |-> res.status, body |-> res.body])

\* A later answer of POST /zoneamento for the coordinate of the kept one.
Repeated ==
  /\ Answering /\ memo.set
  /\ res.by.route = CoordRoute /\ res.status = 200
  /\ res.by.lat = memo.lat /\ res.by.lng = memo.lng

\* C10 as claimed: two answers 200 of POST /zoneamento for the same (lat, lng)
\* have the same body, whatever ran in between, for every content of the
\* table.
C10_SameOutput == Repeated => res.body = memo.body

\* C10 as amended: two answers 200 of POST /zoneamento for the same (lat, lng)
\* have the same body, whatever ran in between, when at most one polygon of
\* the table covers the point.
C10_SameOutputOnePolygon ==
  Repeated /\ Cardinality(Inside(memo.lat, memo.lng)) <= 1 => res.body = memo.body

\* POST /zoneamento answers a second time for the point inside one polygon
\* while an address request is in flight.
C10_Witness ==
  /\ Repeated
  /\ memo.lat = -23 /\ memo.lng = -46
  /\ \E r \in InFlight : r.route \in AddrRoutes /\ r.pc = "querying"

\* A 200 answer of POST /zoneamento-endereco, sent after geocodeEndereco and
\* consultarZoneamento both returned for it.
EnderecoSuccess ==
  /\ Answering /\ res.by.route = "POST /zoneamento-endereco"
  /\ res.status = 200 /\ res.consulted

\* Whether body has the field key with the value v.
HasField(body, key, v) == key \in DOMAIN body /\ body[key] = v

\* C11: every 200 answer of POST /zoneamento-endereco has the documented
\* fields: success true, endereco_original the submitted address,
\* endereco_formatado, lat and lng those of the geocoder's first result, and
\* cod_zoneamento and txt_zoneamento the codigo and texto consultarZoneamento
\* returned for that coordinate.
C11_DocumentedShape ==
  EnderecoSuccess =>
    /\ HasField(res.body, "success", TRUE)
    /\ HasField(res.body, "endereco_original", res.by.endereco.chars)
    /\ HasField(res.body, "endereco_formatado", res.by.first.formatted_address)
    /\ HasField(res.body, "lat", res.by.first.geometry.location.lat)
    /\ HasField(res.body, "lng", res.by.first.geometry.location.lng)
    /\ HasField(res.body, "cod_zoneamento", res.zon.codigo)
    /\ HasField(res.body, "txt_zoneamento", res.zon.texto)

====
